---------------------------- MODULE Spec2Model ----------------------------
(***************************************************************************)
(* Model of src/app_mar8_v2.py: the flag-pattern scanner                   *)
(* (detect_flag_patterns with compute_rsi, is_strong_flag, is_above_ma50), *)
(* the outcome evaluator (calculate_success_probability) and the run of    *)
(* main() that calls them.                                                 *)
(*                                                                         *)
(* Prices are integers (one unit = 1/10000 of the base price) and every    *)
(* quotient the program computes is kept as an exact fraction, extended    *)
(* with the IEEE values inf, -inf and nan that numpy/pandas division by    *)
(* zero produces.  Python's own float division raises ZeroDivisionError    *)
(* instead; that is modelled as the failure of the run.  The one place     *)
(* where binary rounding decides a branch on ordinary inputs is the        *)
(* least-squares slope of a window whose exact slope is 0 (np.polyfit      *)
(* returns a rounding residue of either sign): its sign is the variable    *)
(* polyfit_residue, fixed for a run because the computation is             *)
(* deterministic.                                                          *)
(*                                                                         *)
(* Positions are Python positions (first bar = 0); data[k + 1] is bar k.   *)
(* main calls both functions with their default parameters, so the         *)
(* thresholds and consolidation_days are the defaults throughout.          *)
(***************************************************************************)
EXTENDS Integers, Sequences, FiniteSets, TLC

VARIABLES
    data,               \* sp500_data: the price bars (main, line 348)
    polyfit_residue,    \* sign np.polyfit returns for an exactly flat fit
    pc,                 \* position of main()
    error,              \* the exception that ended the run, or "none"
    i,                  \* scan index of detect_flag_patterns' loop
    found,              \* detect_flag_patterns' local list `flags`
    verdict,            \* branch taken by the last loop iteration
    flags,              \* main's `flags`
    days_after,         \* the selected horizon
    k,                  \* position of calculate_success_probability's loop
    counts,             \* bullish_success, bearish_success, valid_bullish, valid_bearish
    price_change,       \* forward change of the pattern evaluated last
    pattern_details,    \* list of outcome rows being built
    result,             \* (bullish_prob, bearish_prob, pattern_df), gain
    csv,                \* exported rows
    plotted             \* segments drawn by main

vars == <<data, polyfit_residue, pc, error, i, found, verdict, flags, days_after,
          k, counts, price_change, pattern_details, result, csv, plotted>>

(***************************************************************************)
(* Floating-point values: exact fractions plus inf, -inf, nan.             *)
(***************************************************************************)
Fin(n, d) == [k |-> "fin", n |-> n, d |-> d]
NaN == [k |-> "nan", n |-> 0, d |-> 1]
PInf == [k |-> "inf", n |-> 1, d |-> 1]
NInf == [k |-> "inf", n |-> -1, d |-> 1]

Sgn(x) == IF x > 0 THEN 1 ELSE IF x < 0 THEN -1 ELSE 0
Abs(x) == IF x < 0 THEN -x ELSE x

FNeg(x) == [x EXCEPT !.n = -x.n]
FAbs(x) == [x EXCEPT !.n = Abs(x.n)]

\* IEEE division as numpy/pandas perform it (no exception on a zero divisor).
FDiv(x, y) ==
    IF x.k = "nan" \/ y.k = "nan" THEN NaN
    ELSE IF x.k = "inf"
         THEN IF y.k = "inf" THEN NaN
              ELSE IF Sgn(x.n) * (IF y.n < 0 THEN -1 ELSE 1) > 0 THEN PInf ELSE NInf
    ELSE IF y.k = "inf" THEN Fin(0, 1)
    ELSE IF y.n = 0
         THEN IF x.n > 0 THEN PInf ELSE IF x.n < 0 THEN NInf ELSE NaN
    ELSE Fin(x.n * y.d * Sgn(y.n), x.d * Abs(y.n))

FAdd(x, y) ==
    IF x.k = "nan" \/ y.k = "nan" THEN NaN
    ELSE IF x.k = "inf"
         THEN IF y.k = "inf" /\ y.n # x.n THEN NaN ELSE x
    ELSE IF y.k = "inf" THEN y
    ELSE IF x.d = y.d THEN Fin(x.n + y.n, x.d)
    ELSE Fin(x.n * y.d + y.n * x.d, x.d * y.d)

FSub(x, y) == FAdd(x, FNeg(y))

FMulInt(x, m) == IF x.k = "fin" THEN Fin(x.n * m, x.d) ELSE x

\* Comparisons: any comparison with nan is False.
FGt(x, y) ==
    IF x.k = "nan" \/ y.k = "nan" THEN FALSE
    ELSE IF x.k = "inf" THEN x.n > 0 /\ ~(y.k = "inf" /\ y.n > 0)
    ELSE IF y.k = "inf" THEN y.n < 0
    ELSE x.n * y.d > y.n * x.d

FGe(x, y) ==
    IF x.k = "nan" \/ y.k = "nan" THEN FALSE
    ELSE IF x.k = "inf" THEN x.n > 0 \/ (y.k = "inf" /\ y.n < 0)
    ELSE IF y.k = "inf" THEN y.n < 0
    ELSE x.n * y.d >= y.n * x.d

FLt(x, y) == FGt(y, x)
FLe(x, y) == FGe(y, x)

\* round(x, 2): to a whole number of hundredths, ties to even.
Round2(x) ==
    IF x.k # "fin" THEN x
    ELSE LET num == x.n * 100
             q   == (2 * num + x.d) \div (2 * x.d)
             tie == (2 * num + x.d) % (2 * x.d) = 0
         IN  Fin(IF tie /\ q % 2 # 0 THEN q - 1 ELSE q, 100)

(***************************************************************************)
(* A price series: a sequence of bars [Date, Close, High, Low].            *)
(***************************************************************************)
Close(d, p) == d[p + 1].Close
High(d, p) == d[p + 1].High
Low(d, p) == d[p + 1].Low
IndexAt(d, p) == d[p + 1].Date                       \* data.index[p]
InIndex(d, date) == \E p \in 0..(Len(d) - 1) : d[p + 1].Date = date
GetLoc(d, date) == CHOOSE p \in 0..(Len(d) - 1) : d[p + 1].Date = date

RECURSIVE SumClose(_, _, _)
SumClose(d, a, b) == IF a > b THEN 0 ELSE Close(d, a) + SumClose(d, a + 1, b)

RECURSIVE MaxHigh(_, _, _)
MaxHigh(d, a, b) ==
    IF a = b THEN High(d, a)
    ELSE LET m == MaxHigh(d, a + 1, b) IN IF High(d, a) > m THEN High(d, a) ELSE m

RECURSIVE MinLow(_, _, _)
MinLow(d, a, b) ==
    IF a = b THEN Low(d, a)
    ELSE LET m == MinLow(d, a + 1, b) IN IF Low(d, a) < m THEN Low(d, a) ELSE m


(***************************************************************************)
(* Program constants.                                                      *)
(***************************************************************************)
PoleLen == 10                       \* the pole look-back: range(10, ...), iloc[i-10]
RsiPeriod == 14                     \* compute_rsi(series, period=14)
RsiLevel == 50                      \* rsi > 50
MaWindow == 50                      \* rolling(window=50)
DefaultConsolidationDays == 10      \* consolidation_days=10
pole_threshold == Fin(15, 1000)     \* pole_threshold=0.015
flag_threshold == Fin(25, 1000)     \* flag_threshold=0.025
threshold == Fin(1, 10000)          \* threshold=0.0001
Horizons == {1, 7, 14, 21, 30}      \* the selectbox options

(***************************************************************************)
(* Indicators.                                                             *)
(***************************************************************************)
\* delta = series.diff(); delta.where(delta > 0, 0): the first bar's NaN and every
\* non-positive change become 0.
GainAt(d, p) ==
    IF p >= 1 /\ Close(d, p) - Close(d, p - 1) > 0
    THEN Close(d, p) - Close(d, p - 1) ELSE 0

\* -delta.where(delta < 0, 0)
LossAt(d, p) ==
    IF p >= 1 /\ Close(d, p) - Close(d, p - 1) < 0
    THEN Close(d, p - 1) - Close(d, p) ELSE 0

RECURSIVE SumGain(_, _, _)
SumGain(d, a, b) == IF a > b THEN 0 ELSE GainAt(d, a) + SumGain(d, a + 1, b)

RECURSIVE SumLoss(_, _, _)
SumLoss(d, a, b) == IF a > b THEN 0 ELSE LossAt(d, a) + SumLoss(d, a + 1, b)

\* .rolling(window=period).mean(): undefined until `period` rows are in the window.
RollingGain(d, p) ==
    IF p < RsiPeriod - 1 THEN NaN
    ELSE Fin(SumGain(d, p - RsiPeriod + 1, p), RsiPeriod)

RollingLoss(d, p) ==
    IF p < RsiPeriod - 1 THEN NaN
    ELSE Fin(SumLoss(d, p - RsiPeriod + 1, p), RsiPeriod)

\* .fillna(0): nan becomes 0; inf is not nan and stays.
FillNa0(x) == IF x.k = "nan" THEN Fin(0, 1) ELSE x

\* rs = gain / loss: pandas division, so a zero loss gives inf (or nan for 0 / 0).
RsGuarded(d, p) ==
    IF RollingLoss(d, p).k = "fin" /\ RollingLoss(d, p).n = 0 THEN NaN
    ELSE FDiv(RollingGain(d, p), RollingLoss(d, p))
Rs(d, p) == FDiv(RollingGain(d, p), RollingLoss(d, p))

\* compute_rsi(series)[p]
compute_rsi(d, p) ==
    LET rsi == FSub(Fin(100, 1), FDiv(Fin(100, 1), FAdd(Fin(1, 1), Rs(d, p))))
    IN  FillNa0(rsi)

is_strong_flag_inverted(d, flag_end_date) ==
    IF InIndex(d, flag_end_date)
    THEN FLt(compute_rsi(d, GetLoc(d, flag_end_date)), Fin(RsiLevel, 1))
    ELSE FALSE
is_strong_flag(d, flag_end_date) ==
    IF InIndex(d, flag_end_date)
    THEN FGt(compute_rsi(d, GetLoc(d, flag_end_date)), Fin(RsiLevel, 1))
    ELSE FALSE

\* data['Close'].rolling(window=50).mean()[p]
Ma50(d, p) ==
    IF p < MaWindow - 1 THEN NaN
    ELSE Fin(SumClose(d, p - MaWindow + 1, p), MaWindow)

is_above_ma50_unfilled(d, flag_end_date) ==
    IF InIndex(d, flag_end_date)
    THEN LET p == GetLoc(d, flag_end_date)
         IN  p < MaWindow - 1 \/ FGt(Fin(Close(d, p), 1), Ma50(d, p))
    ELSE FALSE
is_above_ma50(d, flag_end_date) ==
    IF InIndex(d, flag_end_date)
    THEN LET p == GetLoc(d, flag_end_date)
         IN  FGt(Fin(Close(d, p), 1), Ma50(d, p))
    ELSE FALSE

(***************************************************************************)
(* detect_flag_patterns: one loop iteration.                               *)
(***************************************************************************)
\* range(10, len(data) - consolidation_days - 1): the first index not scanned.
ScanStopInclusive(n, cd) == n - cd
ScanStop(n, cd) == n - cd - 1

\* (current_close - past_close) / past_close, Python floats: past_close # 0 here.
PoleChange(d, j) ==
    FDiv(Fin(Close(d, j) - Close(d, j - PoleLen), 1), Fin(Close(d, j - PoleLen), 1))

HasPole(d, j) == FGt(FAbs(PoleChange(d, j)), pole_threshold)

TrendDirection(d, j) == IF FGt(PoleChange(d, j), Fin(0, 1)) THEN "bullish" ELSE "bearish"

\* (high_price - low_price) / low_price over data.iloc[j : j + cd]; low_price # 0 here.
PriceRange(d, j, cd) ==
    LET high_price == MaxHigh(d, j, j + cd - 1)
        low_price  == MinLow(d, j, j + cd - 1)
    IN  FDiv(Fin(high_price - low_price, 1), Fin(low_price, 1))

RECURSIVE SumXY(_, _, _, _)
SumXY(d, j, x, cd) == IF x >= cd THEN 0 ELSE x * Close(d, j + x) + SumXY(d, j, x + 1, cd)

RECURSIVE SumSq(_)
SumSq(x) == IF x < 0 THEN 0 ELSE x * x + SumSq(x - 1)

\* np.polyfit(range(cd), closes, 1)[0]: the least-squares slope.  When the exact slope
\* is 0 the value returned is a rounding residue; only its sign (res) is modelled.
FlagSlope(d, j, cd, res) ==
    LET sx  == (cd * (cd - 1)) \div 2
        num == cd * SumXY(d, j, 0, cd) - sx * SumClose(d, j, j + cd - 1)
        den == cd * SumSq(cd - 1) - sx * sx
    IN  IF num = 0 THEN Fin(res, den) ELSE Fin(num, den)

BullishSlopeOkInverted(slope) == FGe(slope, Fin(0, 1))
BullishSlopeOk(slope) == FLe(slope, Fin(0, 1))          \* flag_slope <= 0
BearishSlopeOk(slope) == FGt(slope, Fin(0, 1))          \* flag_slope > 0

\* The dictionary appended to flags.
FlagRecordShort(d, j, cd) ==
    [date |-> IndexAt(d, j),
     pole_start |-> IndexAt(d, j - PoleLen + 1),
     flag_end |-> IndexAt(d, j + cd),
     pole_price_change |-> PoleChange(d, j),
     consolidation_range |-> PriceRange(d, j, cd),
     trend_direction |-> TrendDirection(d, j)]
FlagRecord(d, j, cd) ==
    [date |-> IndexAt(d, j),
     pole_start |-> IndexAt(d, j - PoleLen),
     flag_end |-> IndexAt(d, j + cd),
     pole_price_change |-> PoleChange(d, j),
     consolidation_range |-> PriceRange(d, j, cd),
     trend_direction |-> TrendDirection(d, j)]

\* A Python float division by zero: past_close = 0 (line 78), or low_price = 0 once
\* the pole test has passed (line 87).
DivisionByZero(d, j, cd) ==
    \/ Close(d, j - PoleLen) = 0
    \/ /\ HasPole(d, j)
       /\ MinLow(d, j, j + cd - 1) = 0

\* The branch iteration j takes.
Verdict(d, j, cd, res) ==
    IF ~HasPole(d, j) THEN "no_pole"
    ELSE IF ~FLt(PriceRange(d, j, cd), flag_threshold) THEN "wide"
    ELSE IF TrendDirection(d, j) = "bullish"
         THEN IF ~BullishSlopeOk(FlagSlope(d, j, cd, res)) THEN "slope"
              ELSE IF /\ is_strong_flag(d, IndexAt(d, j + cd))
                      /\ is_above_ma50(d, IndexAt(d, j + cd))
                   THEN "bullish" ELSE "unconfirmed"
    ELSE IF BearishSlopeOk(FlagSlope(d, j, cd, res)) THEN "bearish" ELSE "slope"

(***************************************************************************)
(* The input series of the model.                                          *)
(*                                                                         *)
(* A shaped series is: bar 0, hlen history bars moving hs a bar, 10 pole   *)
(* bars moving ps a bar, 10 flag bars moving fs a bar, tlen tail bars of   *)
(* which the t-th moves t * ts.  The close at the foot of the pole is      *)
(* StartPrice.                                                             *)
(* Dates skip two days in every seven, so a date is not a position.        *)
(***************************************************************************)
StartPrice == 10000
WickWidth == 1
LongHistory == 30
MaxTail == 30

DateOf(p) == p + 2 * (p \div 5)

Clamp(x, lo, hi) == IF x < lo THEN lo ELSE IF x > hi THEN hi ELSE x

Triangle(t) == (t * (t + 1)) \div 2

ShapedClose(s, p) ==
    StartPrice
    + s.hs * (Clamp(p, 0, s.hlen) - s.hlen)
    + s.ps * Clamp(p - s.hlen, 0, PoleLen)
    + s.fs * Clamp(p - s.hlen - PoleLen, 0, DefaultConsolidationDays)
    + s.ts * Triangle(Clamp(p - s.hlen - PoleLen - DefaultConsolidationDays, 0, s.tlen))

ShapedLen(s) == s.hlen + PoleLen + DefaultConsolidationDays + 1 + s.tlen

\* Where a shaped series is damaged with a non-positive price.
BadBar(s) ==
    CASE s.bad = "zero_past" -> s.hlen
      [] s.bad = "zero_end" -> s.hlen + PoleLen + DefaultConsolidationDays
      [] OTHER -> s.hlen + PoleLen + 2

ShapedBar(s, p) ==
    LET c == ShapedClose(s, p)
        hit == p = BadBar(s)
    IN  [Date |-> DateOf(p),
         Close |-> IF hit /\ s.bad \in {"zero_past", "zero_end"} THEN 0 ELSE c,
         High |-> c + WickWidth,
         Low |-> IF hit /\ s.bad = "neg_low" THEN -1
                 ELSE IF hit /\ s.bad = "zero_low" THEN 0
                 ELSE c - WickWidth]

Shaped(s) == [q \in 1..ShapedLen(s) |-> ShapedBar(s, q - 1)]

\* Close rising linearly over n bars from lo to hi (in units of 1/(n-1)), High = Low = Close.
Linear(n, lo, hi) ==
    [q \in 1..n |->
        LET c == lo * (n - 1) + (hi - lo) * (q - 1)
        IN  [Date |-> DateOf(q - 1), Close |-> c, High |-> c, Low |-> c]]

\* 30 bars: bars 0-9 rise 5% in total, bars 10-19 drift down inside a 1% band,
\* bars 20-29 move ts a bar.
Scenario30(ts) ==
    [q \in 1..30 |->
        LET p == q - 1
            c == 9000 + 50 * Clamp(p, 0, 9) - Clamp(p - 9, 0, 10) + ts * Clamp(p - 19, 0, 10)
        IN  [Date |-> DateOf(p), Close |-> c, High |-> c + WickWidth, Low |-> c - WickWidth]]

Shapes ==
    [hlen : {0, LongHistory}, hs : {-20, 0}, ps : {-20, 20}, fs : {-10, -2, 0, 2},
     tlen : {0, 1, 7, MaxTail}, ts : {-1, 0, 1}, bad : {"none"}]

\* hs is meaningless without history and ts without a tail.
Canonical(s) == (s.hlen = 0 => s.hs = 0) /\ (s.tlen = 0 => s.ts = 0)

\* Poles of exactly the threshold height.
Marginal ==
    [hlen : {0, LongHistory}, hs : {0}, ps : {-15, 15}, fs : {-2, 2}, tlen : {7},
     ts : {1}, bad : {"none"}]

Damaged ==
    [hlen : {0}, hs : {0}, ps : {-20}, fs : {2}, tlen : {7}, ts : {-1},
     bad : {"neg_low", "zero_low", "zero_past", "zero_end"}]

SeriesFamily ==
    {Shaped(s) : s \in {t \in Shapes : Canonical(t)} \cup Marginal \cup Damaged}
    \cup {Linear(300, 100, 200), Linear(40, 100, 200)}
    \cup {Scenario30(ts) : ts \in {-1, 5}}

\* Whether the slope test meets a window of d whose exact least-squares fit is flat.
HasFlatFit(d, cd) ==
    \E j \in PoleLen..(ScanStop(Len(d), cd) - 1) :
        /\ HasPole(d, j)
        /\ FLt(PriceRange(d, j, cd), flag_threshold)
        /\ FlagSlope(d, j, cd, 0).n = 0

(***************************************************************************)
(* State.                                                                  *)
(***************************************************************************)
NoCounts == [bullish_success |-> 0, bearish_success |-> 0,
             valid_bullish |-> 0, valid_bearish |-> 0]
NoResult == [bullish_prob |-> Fin(0, 1), bearish_prob |-> Fin(0, 1),
             columns |-> {}, rows |-> <<>>, gain |-> Fin(0, 1)]

consolidation_days == DefaultConsolidationDays       \* main calls with the defaults

Init ==
    /\ data \in SeriesFamily
    /\ polyfit_residue \in {-1, 0, 1}
    /\ (polyfit_residue # 0 => HasFlatFit(data, consolidation_days))
    /\ pc = "detect"
    /\ error = "none"
    /\ i = PoleLen
    /\ found = <<>>
    /\ verdict = "none"
    /\ flags = <<>>
    /\ days_after = 0
    /\ k = 0
    /\ counts = NoCounts
    /\ price_change = NaN
    /\ pattern_details = <<>>
    /\ result = NoResult
    /\ csv = <<>>
    /\ plotted = <<>>

(***************************************************************************)
(* detect_flag_patterns (lines 71-122), called by main at lines 349, 372.  *)
(***************************************************************************)
Detecting == pc \in {"detect", "detect_again"}

\* One iteration of the loop at line 74 that ends normally.
DetectStep ==
    /\ Detecting
    /\ i < ScanStop(Len(data), consolidation_days)
    /\ ~DivisionByZero(data, i, consolidation_days)
    /\ LET v == Verdict(data, i, consolidation_days, polyfit_residue)
       IN  /\ verdict' = v
           /\ found' = IF v \in {"bullish", "bearish"}
                       THEN Append(found, FlagRecord(data, i, consolidation_days))
                       ELSE found
    /\ i' = i + 1
    /\ UNCHANGED <<data, polyfit_residue, pc, error, flags, days_after, k, counts,
                   price_change, pattern_details, result, csv, plotted>>

\* An iteration that divides a Python float by zero: ZeroDivisionError leaves main.
DetectRaise ==
    /\ Detecting
    /\ i < ScanStop(Len(data), consolidation_days)
    /\ DivisionByZero(data, i, consolidation_days)
    /\ pc' = "failed"
    /\ error' = "ZeroDivisionError"
    /\ UNCHANGED <<data, polyfit_residue, i, found, verdict, flags, days_after, k,
                   counts, price_change, pattern_details, result, csv, plotted>>

\* return flags (line 122): to main's line 352 or 374.
DetectReturn ==
    /\ Detecting
    /\ i >= ScanStop(Len(data), consolidation_days)
    /\ flags' = found
    /\ pc' = IF pc = "detect" THEN "evaluate" ELSE "plot"
    /\ UNCHANGED <<data, polyfit_residue, error, i, found, verdict, days_after, k,
                   counts, price_change, pattern_details, result, csv, plotted>>

(***************************************************************************)
(* calculate_success_probability (lines 127-345), called at line 352.      *)
(***************************************************************************)
StrfTime(fmt, day) == [fmt |-> fmt, day |-> day]     \* date.strftime(fmt)
ToDatetime(text) == text.day                         \* pd.to_datetime(text)

Capitalize(w) == IF w = "bullish" THEN "Bullish" ELSE "Bearish"

RowColumns ==
    {"Pattern Start Date", "Pole End/Flag Start Date", "Flag End Date", "Flag Type",
     "Price Change (%)", "Success", "Days After", "Threshold (%)"}

\* (future_price - flag_end_price) / flag_end_price on numpy floats: a zero divisor
\* gives inf or nan, not an exception.
ForwardChange(d, idx, h) ==
    FDiv(Fin(Close(d, idx + h) - Close(d, idx), 1), Fin(Close(d, idx), 1))

BullishSuccessNoThreshold(ch) == FGe(ch, Fin(0, 1))
BullishSuccess(ch) == FGe(ch, threshold)             \* price_change >= threshold
BearishSuccess(ch) == FLe(ch, FNeg(threshold))       \* price_change <= -threshold

Succeeded(flag, ch) ==
    IF flag.trend_direction = "bullish" THEN BullishSuccess(ch) ELSE BearishSuccess(ch)

\* Lines 160-170: the four counters after a pattern of this direction and change.
Counted(c, flag, ch) ==
    IF flag.trend_direction = "bullish"
    THEN [c EXCEPT !.bullish_success = @ + (IF BullishSuccess(ch) THEN 1 ELSE 0),
                   !.valid_bullish = @ + 1]
    ELSE [c EXCEPT !.bearish_success = @ + (IF BearishSuccess(ch) THEN 1 ELSE 0),
                   !.valid_bearish = @ + 1]

\* Lines 173-182: the row appended to pattern_details.
DetailRow(flag, ch, h) ==
    [start_date |-> StrfTime("%Y-%m-%d", flag.pole_start),
     flag_start_date |-> StrfTime("%Y-%m-%d", flag.date),
     flag_end_date |-> StrfTime("%Y-%m-%d", flag.flag_end),
     flag_type |-> Capitalize(flag.trend_direction),
     price_change_pct |-> Round2(FMulInt(ch, 100)),
     success |-> Succeeded(flag, ch),
     days_after |-> h,
     threshold_pct |-> Round2(FMulInt(threshold, 100))]

\* Lines 147-152: whether the pattern has a forward observation.
Evaluable(d, flag, h) ==
    /\ InIndex(d, flag.flag_end)
    /\ GetLoc(d, flag.flag_end) + h < Len(d)

\* bullish_success / valid_bullish if valid_bullish > 0 else 0
Rate(successes, valid) == IF valid > 0 THEN Fin(successes, valid) ELSE Fin(0, 1)

RECURSIVE SumPct(_, _)
SumPct(rows, m) ==
    IF m = 0 THEN Fin(0, 100) ELSE FAdd(SumPct(rows, m - 1), rows[m].price_change_pct)

\* Lines 128-134: no patterns; whatever horizon is selected, the function returns
\* (0.0, 0.0, pd.DataFrame()) at once, and the horizon is gone with its frame.
EvalNoFlags ==
    /\ pc = "evaluate"
    /\ flags = <<>>
    /\ result' = [bullish_prob |-> Fin(0, 1), bearish_prob |-> Fin(0, 1),
                  columns |-> {}, rows |-> <<>>, gain |-> Fin(0, 1)]
    /\ pc' = "details"
    /\ UNCHANGED <<data, polyfit_residue, error, i, found, verdict, flags, days_after,
                   k, counts, price_change, pattern_details, csv, plotted>>

\* Lines 128-143: the horizon is read and the counters are cleared.
EvalBegin ==
    /\ pc = "evaluate"
    /\ flags # <<>>
    /\ \E h \in Horizons : days_after' = h
    /\ counts' = NoCounts
    /\ pattern_details' = <<>>
    /\ k' = 1
    /\ pc' = "eval_loop"
    /\ UNCHANGED <<data, polyfit_residue, error, i, found, verdict, flags,
                   price_change, result, csv, plotted>>

\* Lines 145-182: one iteration of `for flag in flags`.
EvalStep ==
    /\ pc = "eval_loop"
    /\ k <= Len(flags)
    /\ LET flag == flags[k]
       IN  IF ~Evaluable(data, flag, days_after)
           THEN UNCHANGED <<counts, price_change, pattern_details>>
           ELSE LET ch == ForwardChange(data, GetLoc(data, flag.flag_end), days_after)
                IN  /\ price_change' = ch
                    /\ counts' = Counted(counts, flag, ch)
                    /\ pattern_details' =
                          Append(pattern_details, DetailRow(flag, ch, days_after))
    /\ k' = k + 1
    /\ UNCHANGED <<data, polyfit_residue, pc, error, i, found, verdict, flags,
                   days_after, result, csv, plotted>>

\* Lines 184-345: the rates, the table and the displayed gain; the locals end here.
EvalFinish ==
    /\ pc = "eval_loop"
    /\ k > Len(flags)
    /\ pattern_details # <<>>
    /\ result' = [bullish_prob |-> Rate(counts.bullish_success, counts.valid_bullish),
                  bearish_prob |-> Rate(counts.bearish_success, counts.valid_bearish),
                  columns |-> RowColumns,
                  rows |-> pattern_details,
                  gain |-> SumPct(pattern_details, Len(pattern_details))]
    /\ pc' = "details"
    /\ days_after' = 0
    /\ k' = 0
    /\ counts' = NoCounts
    /\ price_change' = NaN
    /\ pattern_details' = <<>>
    /\ UNCHANGED <<data, polyfit_residue, error, i, found, verdict, flags, csv, plotted>>

\* Lines 189-190: every pattern was skipped, so pd.DataFrame([]) has no columns and
\* df_patterns['Price Change (%)'] raises KeyError.
EvalRaise ==
    /\ pc = "eval_loop"
    /\ k > Len(flags)
    /\ pattern_details = <<>>
    /\ pc' = "failed"
    /\ error' = "KeyError"
    /\ UNCHANGED <<data, polyfit_residue, i, found, verdict, flags, days_after, k,
                   counts, price_change, pattern_details, result, csv, plotted>>

(***************************************************************************)
(* main (lines 347-405) after the evaluation.                              *)
(***************************************************************************)
Reformat(text) == StrfTime("%d-%m-%Y", ToDatetime(text))

\* Lines 355-372: the three date columns are rewritten, the table is exported, and
\* detect_flag_patterns is called again.
Details ==
    /\ pc = "details"
    /\ "Pattern Start Date" \in result.columns
    /\ LET rows == [m \in 1..Len(result.rows) |->
                      [result.rows[m] EXCEPT !.start_date = Reformat(@),
                                             !.flag_end_date = Reformat(@),
                                             !.flag_start_date = Reformat(@)]]
       IN  /\ result' = [result EXCEPT !.rows = rows]
           /\ csv' = rows
    /\ pc' = "detect_again"
    /\ i' = PoleLen
    /\ found' = <<>>
    /\ verdict' = "none"
    /\ UNCHANGED <<data, polyfit_residue, error, flags, days_after, k, counts,
                   price_change, pattern_details, plotted>>

\* Line 357: pattern_df has no columns (pd.DataFrame()), so the lookup raises KeyError.
DetailsRaise ==
    /\ pc = "details"
    /\ "Pattern Start Date" \notin result.columns
    /\ pc' = "failed"
    /\ error' = "KeyError"
    /\ UNCHANGED <<data, polyfit_residue, i, found, verdict, flags, days_after, k,
                   counts, price_change, pattern_details, result, csv, plotted>>

\* Lines 374-405: one pole segment and one flag segment per pattern.
Plot ==
    /\ pc = "plot"
    /\ plotted' = [m \in 1..Len(flags) |->
                     [color |-> IF flags[m].trend_direction = "bullish" THEN "g" ELSE "r",
                      pole_period |-> <<flags[m].pole_start, flags[m].date>>,
                      flag_period |-> <<flags[m].date, flags[m].flag_end>>]]
    /\ pc' = "done"
    /\ UNCHANGED <<data, polyfit_residue, error, i, found, verdict, flags, days_after,
                   k, counts, price_change, pattern_details, result, csv>>

Next ==
    \/ DetectStep
    \/ DetectRaise
    \/ DetectReturn
    \/ EvalNoFlags
    \/ EvalBegin
    \/ EvalStep
    \/ EvalFinish
    \/ EvalRaise
    \/ Details
    \/ DetailsRaise
    \/ Plot

Spec == Init /\ [][Next]_vars

(***************************************************************************)
(* Properties.                                                             *)
(***************************************************************************)
N == Len(data)
Returned == pc = "evaluate"          \* the first detection has just returned
Pos(date) == GetLoc(data, date)

NonPositivePrice == \E p \in 0..(N - 1) : Close(data, p) <= 0 \/ Low(data, p) <= 0

\* Index j passes the tests of one loop iteration.
Accepted(j) ==
    /\ ~DivisionByZero(data, j, consolidation_days)
    /\ Verdict(data, j, consolidation_days, polyfit_residue) \in {"bullish", "bearish"}

RecordsAt(j) == {m \in 1..Len(flags) : flags[m].date = IndexAt(data, j)}

\* Sums of the gains and of the losses in the 14-row window ending at p.
WindowGain(p) == SumGain(data, p - 13, p)
WindowLoss(p) == SumLoss(data, p - 13, p)

AboveMa50(p) == p >= 49 /\ 50 * Close(data, p) > SumClose(data, p - 49, p)

\* The rows a pattern list yields at horizon h: the patterns with a forward observation.
RECURSIVE EvaluableEnds(_, _, _)
EvaluableEnds(fl, m, h) ==
    IF m = 0 THEN <<>>
    ELSE IF InIndex(data, fl[m].flag_end) /\ Pos(fl[m].flag_end) + h <= N - 1
         THEN Append(EvaluableEnds(fl, m - 1, h), fl[m].flag_end)
         ELSE EvaluableEnds(fl, m - 1, h)

RowEnds(rows) == [m \in 1..Len(rows) |-> rows[m].flag_end_date.day]

RowCount(rows, type, onlySuccess) ==
    Cardinality({m \in 1..Len(rows) :
                    rows[m].flag_type = type /\ (onlySuccess => rows[m].success)})

\* C1: evaluating a non-empty pattern list never raises, and yields one row, in
\* order, for each pattern that has a forward observation; the others are dropped
\* from the rows and from both denominators, even when that leaves no row at all.
C1_SkippedPatternsAreNoError ==
    /\ ~(pc = "failed" /\ flags # <<>> /\ k > Len(flags))
    /\ (pc = "eval_loop" =>
          /\ RowEnds(pattern_details) = EvaluableEnds(flags, k - 1, days_after)
          /\ counts.valid_bullish + counts.valid_bearish = Len(pattern_details))

\* C2: when detection finds nothing, the evaluator returns (0.0, 0.0, empty table)
\* and the run of main never fails.
C2_EmptyDetectionCompletes ==
    /\ (pc = "details" /\ flags = <<>> =>
          /\ result.bullish_prob = Fin(0, 1)
          /\ result.bearish_prob = Fin(0, 1)
          /\ result.rows = <<>>)
    /\ ~(pc = "failed" /\ flags = <<>> /\ i >= ScanStop(N, consolidation_days))

\* C3: every bullish record has RSI-14 > 50 and Close above a defined 50-bar average
\* at its flag_end; every scanned index with a downward pole, a narrow range and a
\* rising fit yields a bearish record, whatever the RSI and the average are.
C3_BullishConfirmedBearishNot ==
    Returned =>
      /\ \A m \in 1..Len(flags) :
            flags[m].trend_direction = "bullish" =>
              /\ FGt(compute_rsi(data, Pos(flags[m].flag_end)), Fin(50, 1))
              /\ AboveMa50(Pos(flags[m].flag_end))
      /\ \A j \in 10..(N - consolidation_days - 2) :
            (/\ FLt(PoleChange(data, j), FNeg(pole_threshold))
             /\ FLt(PriceRange(data, j, consolidation_days), flag_threshold)
             /\ FGt(FlagSlope(data, j, consolidation_days, polyfit_residue), Fin(0, 1)))
            => \E m \in RecordsAt(j) : flags[m].trend_direction = "bearish"

\* A bullish record has been emitted.
C3_Witness ==
    /\ Returned
    /\ \E m \in 1..Len(flags) : flags[m].trend_direction = "bullish"

\* C4: the three dates of every record are dates of bars of the series, in the order
\* pole_start < date < flag_end, date 10 bars after pole_start and flag_end
\* consolidation_days bars after date.
C4_WindowsInsideSeries ==
    \A m \in 1..Len(found) :
        LET r == found[m]
        IN  /\ InIndex(data, r.pole_start)
            /\ InIndex(data, r.date)
            /\ InIndex(data, r.flag_end)
            /\ r.pole_start < r.date
            /\ r.date < r.flag_end
            /\ Pos(r.date) = Pos(r.pole_start) + 10
            /\ Pos(r.flag_end) = Pos(r.date) + consolidation_days

\* Records anchored at the first scan index (pole from bar 0) and at the last one.
C4_Witness ==
    /\ Returned
    /\ \E m \in 1..Len(flags) : Pos(flags[m].pole_start) = 0
    /\ \E m \in 1..Len(flags) : Pos(flags[m].flag_end) = N - 2

\* Whether (f - e) / e >= num / 10000 (sense = 1) or <= num / 10000 (sense = -1),
\* with the quotient by e = 0 read as inf, -inf or nan.
ChangeCompares(f, e, num, sense) ==
    IF e > 0 THEN sense * ((f - e) * 10000 - num * e) >= 0
    ELSE IF e < 0 THEN sense * ((f - e) * 10000 - num * e) <= 0
    ELSE sense * f > 0

RowRuleHolds(row) ==
    LET p == Pos(row.flag_end_date.day)
        e == Close(data, p)
        f == Close(data, p + row.days_after)
    IN  row.success = IF row.flag_type = "Bullish"
                      THEN ChangeCompares(f, e, 1, 1)
                      ELSE ChangeCompares(f, e, -1, -1)

RateIs(rate, rows, type) ==
    LET valid == RowCount(rows, type, FALSE)
        good  == RowCount(rows, type, TRUE)
    IN  /\ rate.k = "fin"
        /\ 0 <= rate.n /\ rate.n <= rate.d
        /\ IF valid = 0 THEN rate.n = 0 ELSE rate.n * valid = good * rate.d

\* C5: the forward change is (close[end + h] - close[end]) / close[end]; a Bullish row
\* succeeds iff it is >= threshold and a Bearish row iff it is <= -threshold; each
\* direction's counters count that direction's rows only, and each rate is
\* successes / valid rows of its direction (0 without any), within [0, 1].
C5_SuccessRuleAndRates ==
    /\ (pc = "eval_loop" =>
          /\ \A m \in 1..Len(pattern_details) : RowRuleHolds(pattern_details[m])
          /\ counts.valid_bullish = RowCount(pattern_details, "Bullish", FALSE)
          /\ counts.bullish_success = RowCount(pattern_details, "Bullish", TRUE)
          /\ counts.valid_bearish = RowCount(pattern_details, "Bearish", FALSE)
          /\ counts.bearish_success = RowCount(pattern_details, "Bearish", TRUE)
          /\ (pattern_details # <<>> =>
                LET row == pattern_details[Len(pattern_details)]
                    p == Pos(row.flag_end_date.day)
                    e == Close(data, p)
                    f == Close(data, p + days_after)
                IN  IF e = 0 THEN price_change.k = (IF f = 0 THEN "nan" ELSE "inf")
                    ELSE /\ price_change.k = "fin"
                         /\ price_change.n * e = (f - e) * price_change.d))
    /\ (result.columns # {} =>
          /\ RateIs(result.bullish_prob, result.rows, "Bullish")
          /\ RateIs(result.bearish_prob, result.rows, "Bearish"))

\* The evaluation ended with a bullish rate strictly between 0 and 1.
C5_Witness ==
    /\ pc = "details"
    /\ 0 < result.bullish_prob.n
    /\ result.bullish_prob.n < result.bullish_prob.d

RsiIs(p, value) ==
    LET r == compute_rsi(data, p) IN r.k = "fin" /\ r.n = value * r.d

\* A bullish candidate at j (pole, range and slope tests passed) whose flag_end window
\* holds gains and no loss.
LosslessCandidate(j) ==
    /\ FGt(PoleChange(data, j), pole_threshold)
    /\ FLt(PriceRange(data, j, consolidation_days), flag_threshold)
    /\ FLe(FlagSlope(data, j, consolidation_days, polyfit_residue), Fin(0, 1))
    /\ WindowLoss(j + consolidation_days) = 0
    /\ WindowGain(j + consolidation_days) > 0

\* C6 as stated: RSI is 0 wherever the window is unfilled or holds no loss, and a
\* bullish candidate whose flag_end window has gains and no losses is not emitted.
C6_RsiZeroWithoutLosses ==
    Returned =>
      /\ \A p \in 0..(N - 1) : (p < 13 \/ WindowLoss(p) = 0) => RsiIs(p, 0)
      /\ \A j \in 10..(N - consolidation_days - 2) :
            LosslessCandidate(j) => RecordsAt(j) = {}

\* C6 amended: RSI is 0 where the window is unfilled and where it holds neither a gain
\* nor a loss; where it holds gains and no loss RSI is 100, and such a bullish
\* candidate is emitted whenever Close is above the 50-bar average.
C6_RsiHundredWithoutLosses ==
    Returned =>
      /\ \A p \in 0..(N - 1) :
            /\ (p < 13 => RsiIs(p, 0))
            /\ (p >= 13 /\ WindowLoss(p) = 0 /\ WindowGain(p) = 0 => RsiIs(p, 0))
            /\ (p >= 13 /\ WindowLoss(p) = 0 /\ WindowGain(p) > 0 => RsiIs(p, 100))
      /\ \A j \in 10..(N - consolidation_days - 2) :
            LosslessCandidate(j) /\ AboveMa50(j + consolidation_days)
            => RecordsAt(j) # {}

\* A bullish record whose flag_end window holds gains and no loss.
C6_Witness ==
    /\ Returned
    /\ \E j \in 10..(N - consolidation_days - 2) :
          /\ LosslessCandidate(j)
          /\ \E m \in RecordsAt(j) : flags[m].trend_direction = "bullish"

\* C7: a series with a zero or negative Close or Low ends both functions in an error
\* and yields no pattern record and no outcome row.
C7_NonPositivePriceIsRejected ==
    NonPositivePrice =>
      /\ pc \in {"detect", "failed"}
      /\ found = <<>>
      /\ pattern_details = <<>>
      /\ result.rows = <<>>

\* The 30-bar scenario: bars 0-9 rise 5% in total, bars 10-19 stay inside a 1% band
\* with closes that never rise, RSI at bar 19 is above 50 and Close at bar 19 is above
\* the mean of the closes so far.
IsThirtyBarScenario ==
    /\ N = 30
    /\ (Close(data, 9) - Close(data, 0)) * 100 = 5 * Close(data, 0)
    /\ (MaxHigh(data, 10, 19) - MinLow(data, 10, 19)) * 100 <= MinLow(data, 10, 19)
    /\ \A p \in 10..18 : Close(data, p + 1) <= Close(data, p)
    /\ FGt(compute_rsi(data, 19), Fin(50, 1))
    /\ 20 * Close(data, 19) > SumClose(data, 0, 19)

\* C8 as stated: the 30-bar scenario yields exactly one record, Bullish, from bar 0
\* to bar 19.
C8_ThirtyBarScenarioEmitsOneBullish ==
    Returned /\ IsThirtyBarScenario =>
      /\ Len(flags) = 1
      /\ flags[1].trend_direction = "bullish"
      /\ flags[1].pole_start = IndexAt(data, 0)
      /\ flags[1].flag_end = IndexAt(data, 19)

\* Scan index j shows the scenario's formation: a rise above the pole threshold over
\* bars j-10..j, a narrow and declining window j..j+9, and at bar j+10 RSI above 50
\* and Close above the average of the 50 bars ending there.
ScenarioAt(j) ==
    /\ FGt(PoleChange(data, j), pole_threshold)
    /\ FLt(PriceRange(data, j, consolidation_days), flag_threshold)
    /\ FlagSlope(data, j, consolidation_days, 0).n < 0
    /\ FGt(compute_rsi(data, j + consolidation_days), Fin(50, 1))
    /\ AboveMa50(j + consolidation_days)

\* C8 amended: a Bullish record needs 50 bars up to its flag_end, so a 30-bar series
\* yields none; on a longer series every scan index j <= len - 12 showing the
\* formation yields exactly one Bullish record, from bar j - 10 to bar j + 10.
C8_BullishNeedsFiftyBars ==
    Returned =>
      /\ \A m \in 1..Len(flags) :
            flags[m].trend_direction = "bullish" => N > 30 /\ Pos(flags[m].flag_end) >= 49
      /\ \A j \in 10..(N - 12) :
            ScenarioAt(j) =>
              /\ Cardinality(RecordsAt(j)) = 1
              /\ \A m \in RecordsAt(j) :
                    /\ flags[m].trend_direction = "bullish"
                    /\ flags[m].pole_start = IndexAt(data, j - 10)
                    /\ flags[m].flag_end = IndexAt(data, j + 10)

\* The formation occurs at some scan index.
C8_Witness ==
    /\ Returned
    /\ \E j \in 10..(N - 12) : ScenarioAt(j) /\ RecordsAt(j) # {}

\* Close strictly increasing with High = Low = Close at every bar.
IsRisingFlatWick ==
    \A p \in 0..(N - 1) :
        /\ High(data, p) = Close(data, p)
        /\ Low(data, p) = Close(data, p)
        /\ (p + 1 < N => Close(data, p) < Close(data, p + 1))

\* C9 as stated: on such a series nothing is emitted and every scan index is rejected
\* by the range test.
C9_RisingSeriesRejectedByRange ==
    IsRisingFlatWick =>
      /\ found = <<>>
      /\ verdict \in {"none", "wide"}

\* C9 amended: on such a series nothing is emitted; every scan index is rejected by
\* the pole test, by the range test, or, when the range is narrow, by the bullish
\* slope test (the fit is rising).
C9_RisingSeriesEmitsNothing ==
    IsRisingFlatWick =>
      /\ found = <<>>
      /\ flags = <<>>
      /\ verdict \in {"none", "no_pole", "wide", "slope"}

\* A scan index of a rising series passes the range test and fails the slope test.
C9_Witness ==
    /\ IsRisingFlatWick
    /\ Detecting
    /\ verdict = "slope"
    /\ i > 10
    /\ FLt(PriceRange(data, i - 1, consolidation_days), flag_threshold)

\* C10 as stated: every index from 10 to len - consolidation_days - 1 is tested, and
\* yields a record when it passes the tests.
C10_LastAnchorScanned ==
    Returned =>
      \A j \in 10..(N - consolidation_days - 1) : Accepted(j) => RecordsAt(j) # {}

\* C10 amended: the indices tested are 10 .. len - consolidation_days - 2, in
\* ascending order; each yields exactly one record when it passes and none otherwise;
\* no record is anchored at len - consolidation_days - 1 (flag_end on the last bar).
C10_ScanStopsBeforeLastAnchor ==
    Returned =>
      /\ \A j \in 10..(N - consolidation_days - 2) :
            Cardinality(RecordsAt(j)) = IF Accepted(j) THEN 1 ELSE 0
      /\ \A m \in 1..Len(flags) :
            /\ Pos(flags[m].date) >= 10
            /\ Pos(flags[m].date) <= N - consolidation_days - 2
            /\ Pos(flags[m].flag_end) <= N - 2
      /\ \A m \in 1..(Len(flags) - 1) : flags[m].date < flags[m + 1].date

\* A formation anchored at len - consolidation_days - 1 passes the tests and is absent,
\* while the index before it was tested and emitted.
C10_Witness ==
    /\ Returned
    /\ N - consolidation_days - 1 >= 11
    /\ Accepted(N - consolidation_days - 1)
    /\ RecordsAt(N - consolidation_days - 1) = {}
    /\ RecordsAt(N - consolidation_days - 2) # {}

=============================================================================
